---- MODULE Spec2Model ----
(***************************************************************************)
(* Z-Hub catalog front-end: the client-side data pipeline of the three     *)
(* views (Modules, Datasets, Compositions).                                *)
(*                                                                         *)
(* Strings are sequences of tokens.  The tokens form a prefix code, so two *)
(* token sequences are equal exactly when the strings they spell are.      *)
(* A JavaScript value received from the network is a record                *)
(* [isArray, items]: an array with its items, or some non-array value.     *)
(***************************************************************************)
EXTENDS Integers, Sequences, FiniteSets, TLC

\* ---------------------------------------------------------------- bounds

\* Longest BASE_URL (in tokens) enumerated by the URL specification.
MaxBaseLen == 2
\* Longest fetched payload (in records).
MaxLen == 1
\* Longest collection (in records) the filter specification starts from.
MaxItems == 3
\* Most deep-link timers armed at once: the Reload button is not pressed
\* again while that many are still to come due.
MaxPending == 2

\* ------------------------------------------------------------- constants

\* tryFetch(url, ms = 6000): the default delay of the abort timer.
FetchTimeoutMs == 6000

\* setTimeout(() => { ... document.querySelector(route.hash) ... }, 300)
ScrollDelayMs == 300

\* setTimeout(() => element.classList.remove('highlight-card'), 2000)
HighlightMs == 2000

\* ------------------------------------------------------------ JS values

RECURSIVE SeqsUpTo(_, _)
SeqsUpTo(S, n) ==
  IF n = 0 THEN {<<>>}
  ELSE LET shorter == SeqsUpTo(S, n - 1)
       IN  shorter \cup {Append(s, x) : s \in shorter, x \in S}

JsArray(s) == [isArray |-> TRUE, items |-> s]
NotAnArray == [isArray |-> FALSE, items |-> <<>>]
EmptyArray == JsArray(<<>>)

\* The bodies a response can parse to: the arrays of the first n records of
\* the asset, n = 0..MaxLen, and a value that is not an array.
JsonValues == {JsArray([i \in 1..n |-> i]) : n \in 0..MaxLen} \cup {NotAnArray}

\* Array.isArray(data)
IsArray(data) == data.isArray

\* ---------------------------------------------------------------- strings

Tokens == {"/", "Z-Hub", "?", "ts="}

\* Every BASE_URL of at most MaxBaseLen tokens, the empty one included.
AllBases == SeqsUpTo(Tokens, MaxBaseLen)

\* The bases of the two usual deployments: the dev server and GitHub Pages.
DeployBases == {<<"/">>, <<"/", "Z-Hub", "/">>}

\* String(Date.now()): one token, the clock reading at the start of the load.
NowToken == "1730000000000"

RECURSIVE StripTrailingSlashes(_)
StripTrailingSlashes(s) ==
  IF s # <<>> /\ s[Len(s)] = "/"
  THEN StripTrailingSlashes(SubSeq(s, 1, Len(s) - 1))
  ELSE s

\* (import.meta.env.BASE_URL || '/').replace(/\/+$/g, '/').replace(/^$/g, '/')
NormalizeBase(raw) ==
  LET orDefault == IF raw = <<>> THEN <<"/">> ELSE raw
      collapsed == IF orDefault[Len(orDefault)] = "/"
                   THEN StripTrailingSlashes(orDefault) \o <<"/">>
                   ELSE orDefault
  IN  IF collapsed = <<>> THEN <<"/">> ELSE collapsed

\* s.includes(tok)
Includes(s, tok) == \E i \in 1..Len(s) : s[i] = tok

\* Array.from(new Set(list)): first occurrences, in insertion order.
RECURSIVE Dedup(_)
Dedup(list) ==
  IF list = <<>> THEN <<>>
  ELSE LET front == Dedup(SubSeq(list, 1, Len(list) - 1))
           last  == list[Len(list)]
       IN  IF \E i \in 1..Len(front) : front[i] = last
           THEN front
           ELSE Append(front, last)

\* `${u}${u.includes('?') ? '' : `?ts=${Date.now()}`}`
CacheBust(u) ==
  IF Includes(u, "?") THEN u ELSE u \o <<"?", "ts=", NowToken>>

\* The three forms, before deduplication: base-qualified, root-absolute, relative.
ThreeForms(base, asset) ==
  << NormalizeBase(base) \o <<asset>>, <<"/", asset>>, <<asset>> >>

\* const candidates = Array.from(new Set([...])).map(u => ...)
CandidatesNoDedup(base, asset) ==
  LET forms == ThreeForms(base, asset)
  IN  [i \in 1..Len(forms) |-> CacheBust(forms[i])]
Candidates(base, asset) ==
  LET unique == Dedup(ThreeForms(base, asset))
  IN  [i \in 1..Len(unique) |-> CacheBust(unique[i])]


\* ------------------------------------------------------- catalog records

\* Text is a sequence of characters.  CharCode is the UTF-16 code unit.
Chars == {"A", "B", "a", "b", "l"}
CharCode(c) ==
  CASE c = "A" -> 65 [] c = "B" -> 66 [] c = "a" -> 97 [] c = "b" -> 98
    [] c = "l" -> 108

\* An optional field: absent (undefined) or present with a value.
Missing == <<>>
Some(x) == <<x>>
IsMissing(field) == field = Missing
ValueOf(field) == field[1]

\* The records an asset can hold, by identifier.  Between them they carry the
\* text "Ab" (in some letter case) in exactly one field each: name,
\* description, a tag, a usedIn entry, a capability, a feature; record 6 has
\* no tags field at all.  Every other text is "l".
Catalog ==
  << [ id |-> 1, name |-> <<"A", "b">>, description |-> <<"l">>,
       category |-> <<"B">>, tags |-> Some(<< <<"l">> >>),
       usedIn |-> Missing, capabilities |-> Missing,
       features |-> << <<"l">> >> ],
     [ id |-> 2, name |-> <<"l">>, description |-> <<"l", "a", "B">>,
       category |-> <<"a">>, tags |-> Some(<< >>),
       usedIn |-> Some(<< >>), capabilities |-> Some(<< >>),
       features |-> << >> ],
     [ id |-> 3, name |-> <<"l">>, description |-> <<"l">>,
       category |-> <<"B">>, tags |-> Some(<< <<"l">>, <<"A", "B">> >>),
       usedIn |-> Missing, capabilities |-> Missing,
       features |-> << <<"l">> >> ],
     [ id |-> 4, name |-> <<"l">>, description |-> <<"l">>,
       category |-> <<"A", "b">>, tags |-> Some(<< <<"l">> >>),
       usedIn |-> Some(<< <<"l">>, <<"A", "b">> >>), capabilities |-> Missing,
       features |-> << <<"l">> >> ],
     [ id |-> 5, name |-> <<"l">>, description |-> <<"l">>,
       category |-> <<"a">>, tags |-> Some(<< <<"l">> >>),
       usedIn |-> Missing, capabilities |-> Missing,
       features |-> << <<"l">>, <<"a", "b">> >> ],
     [ id |-> 6, name |-> <<"l">>, description |-> <<"l">>,
       category |-> <<"B">>, tags |-> Missing,
       usedIn |-> Missing, capabilities |-> Missing,
       features |-> << <<"l">> >> ],
     [ id |-> 7, name |-> <<"l">>, description |-> <<"l">>,
       category |-> <<"A", "b">>, tags |-> Some(<< <<"l">> >>),
       usedIn |-> Missing,
       capabilities |-> Some(<< [name |-> <<"l">>, description |-> <<"a", "B">>] >>),
       features |-> << <<"l">> >> ] >>

\* The arrays of at most MaxItems catalog records, in any order, no record
\* twice (identifiers are unique): an item of a collection is the identifier
\* of its record.
CatalogArrays ==
  { JsArray(s) : s \in { t \in SeqsUpTo(1..Len(Catalog), MaxItems) :
                           \A i, j \in 1..Len(t) : i < j => t[i] # t[j] } }

\* String.prototype.toLowerCase()
LowerChar(c) == CASE c = "A" -> "a" [] c = "B" -> "b" [] OTHER -> c
ToLowerCaseKeepsCase(s) == s
ToLowerCase(s) == [i \in 1..Len(s) |-> LowerChar(s[i])]

\* String.prototype.includes(query)
IncludesText(s, query) ==
  \E k \in 0..(Len(s) - Len(query)) : SubSeq(s, k + 1, k + Len(query)) = query

\* text.toLowerCase().includes(query)
Hit(text, query) == IncludesText(ToLowerCase(text), query)

\* list.some(x => x.toLowerCase().includes(query))
SomeHit(list, query) == \E i \in 1..Len(list) : Hit(list[i], query)

\* a < b in the order Array.prototype.sort() uses for strings: by code unit,
\* a proper prefix first.
RECURSIVE Precedes(_, _)
Precedes(a, b) ==
  IF a = <<>> THEN b # <<>>
  ELSE IF b = <<>> THEN FALSE
  ELSE IF a[1] = b[1] THEN Precedes(Tail(a), Tail(b))
  ELSE CharCode(a[1]) < CharCode(b[1])

\* Array.prototype.sort() on a list of distinct strings.
RECURSIVE Sort(_)
Sort(list) ==
  IF list = <<>> THEN <<>>
  ELSE LET m == CHOOSE i \in 1..Len(list) :
                  \A j \in 1..Len(list) : j = i \/ Precedes(list[i], list[j])
       IN  <<list[m]>> \o
           Sort([k \in 1..(Len(list) - 1) |-> IF k < m THEN list[k] ELSE list[k + 1]])

\* Array.prototype.filter over the positions of a collection.  verdict[p]
\* is what the callback does for the item at position p: "yes", "no" or
\* "throw"; an exception in the callback ends the filter.
FilterPositions(positions, verdict) ==
  SelectSeq(positions, LAMBDA p : verdict[p] = "yes")
Throws(positions, verdict) ==
  \E i \in 1..Len(positions) : verdict[positions[i]] = "throw"

\* ------------------------------------------------------ submission form

\* const uploadForm = ref({ name: '', description: '', tags: '', links: '',
\* size: '' })
Fields == {"name", "description", "tags", "links", "size"}
EmptyForm == [f \in Fields |-> <<>>]

\* The texts a field of the form is given.  A text is a sequence of tokens: a
\* run of letters and digits, or one character of another kind.
FieldTexts(f) ==
  CASE f = "name"        -> {<<>>, <<"Foo">>, <<" ", "&", "+", "=">>}
    [] f = "description" -> {<<>>, <<"x", "\n", "#">>}
    [] f = "links"       -> {<<>>, <<"x">>}
    [] f = "size"        -> {<<>>, <<"1">>}
    [] f = "tags"        -> {<<>>, <<"x">>}

\* The slugs repoFromEnvOrGuess() resolves: 'owner/repo', or '' when neither
\* VITE_GITHUB_REPO nor a github.io host name gives one.
RepoSlugs == {<<>>, <<"org", "/", "repo">>}

\* The application/x-www-form-urlencoded serializer of URLSearchParams, per
\* token: letters, digits, '*', '-', '.', '_' stay, a space becomes '+',
\* every other character is percent-encoded.
EncodeTokenLikeEncodeURI(tok) ==
  CASE tok = " "  -> "%20"
    [] tok = "\n" -> "%0A"
    [] tok = "["  -> "%5B"
    [] tok = "]"  -> "%5D"
    [] OTHER      -> tok
EncodeToken(tok) ==
  CASE tok = " "  -> "+"
    [] tok = "\n" -> "%0A"
    [] tok = "#"  -> "%23"
    [] tok = "&"  -> "%26"
    [] tok = "("  -> "%28"
    [] tok = ")"  -> "%29"
    [] tok = "+"  -> "%2B"
    [] tok = "="  -> "%3D"
    [] tok = "["  -> "%5B"
    [] tok = "]"  -> "%5D"
    [] OTHER      -> tok
Encode(text) == [i \in 1..Len(text) |-> EncodeToken(text[i])]

\* lines.join('\n')
RECURSIVE Join(_)
Join(lines) ==
  IF Len(lines) = 0 THEN <<>>
  ELSE IF Len(lines) = 1 THEN lines[1]
  ELSE lines[1] \o <<"\n">> \o Join(Tail(lines))

\* new URLSearchParams({ title, body, labels: 'dataset' }).toString()
SearchParams(title, body) ==
  <<"title", "=">> \o Encode(title) \o <<"&", "body", "=">> \o Encode(body)
    \o <<"&", "labels", "=">> \o Encode(<<"dataset">>)

\* function buildIssueUrl(), as a function of repoSlug.value and
\* uploadForm.value.  A field that is '' is falsy and `|| ''` gives ''.
BuildIssueUrl(repo, form) ==
  LET base  == IF repo # <<>>
               THEN <<"https://github.com/">> \o repo \o <<"/issues/new">>
               ELSE <<"https://github.com/new">>
      title == <<"[", "Dataset", "]", " ", "Contributing", " ">> \o form.name
      body  == Join(<< <<"#", "#", "#", " ", "Dataset", " ", "name">>,
                       form.name, <<>>,
                       <<"#", "#", "#", " ", "Description">>,
                       form.description, <<>>,
                       <<"#", "#", "#", " ", "Data", " ", "URL", "(", "s", ")">>,
                       form.links, <<>>,
                       <<"#", "#", "#", " ", "Size">>,
                       form.size, <<>>,
                       <<"#", "#", "#", " ", "Tags">>,
                       form.tags, <<>>,
                       <<"_", "Submitted", " ", "via", " ", "Z-Hub", " ", "site", "_">> >>)
  IN  base \o <<"?">> \o SearchParams(title, body)

\* ------------------------------------------------------------------ state

Views   == {"modules", "datasets", "compositions"}
Loaders == {"modules", "community", "sdrbench"}

\* The invocations whose locals are kept: one of each loader, and one more
\* of loadModules, for a call made while the first is still awaiting.
Again == "modules (again)"
Invocations == Loaders \cup {Again}
LoaderOf(I) == IF I = Again THEN "modules" ELSE I

VARIABLES
  BASE_URL,           \* import.meta.env.BASE_URL, fixed at build time
  view,               \* the mounted page: "none" before any page is mounted
  modules,            \* Modules page: modules.value
  communityDatasets,  \* Datasets page: communityDatasets.value
  sdrbenchDatasets,   \* Datasets page: sdrbenchDatasets.value
  compositions,       \* Compositions page: compositions.value
  loading,            \* loading.value of the mounted page (Modules, Datasets)
  error,              \* error.value of the mounted page (Modules, Datasets)
  sdrError,           \* Datasets page: sdrError.value
  ld,                 \* per loader: the locals of its running invocation
  loadAllPc,          \* loadAll: "idle", "awaiting" (allSettled) or "done"
  compReq,            \* loadCompositions: "none", "pending" (fetch), "body"
                      \* (response.json()), "loaded" or "failed" (catch)
  searchQuery,        \* searchQuery.value of the mounted page
  selectedCategory,   \* selectedCategory.value of the mounted page
  routeHash,          \* route.hash: empty, or "#" and the identifier aimed at
  domTimers,          \* Modules page: the armed timers of the deep link,
                      \* [kind |-> "lookup" or "unhighlight", left |-> ms to
                      \* go, target |-> the card held, 0 for none or for a
                      \* card that has left the document]
  cards,              \* Modules page: the identifiers of the rendered cards
  highlighted,        \* Modules page: the cards with class highlight-card
  scrolledTo,         \* Modules page: the card last scrolled into view, or 0
  repoSlug,           \* Datasets page: repoSlug.value, '' when none resolved
  uploadForm,         \* Datasets page: uploadForm.value
  opened              \* Datasets page: the URL window.open was last called
                      \* with, as a sequence of none or one

filterVars == << searchQuery, selectedCategory >>
linkVars   == << routeHash, domTimers, cards, highlighted, scrolledTo >>
formVars   == << repoSlug, uploadForm, opened >>

vars == << BASE_URL, view, modules, communityDatasets, sdrbenchDatasets,
           compositions, loading, error, sdrError, ld, loadAllPc, compReq,
           filterVars, linkVars, formVars >>

\* const selectedCategory = ref('all') on the Modules page, ref('All') on the
\* Compositions page; the Datasets page has no category selector.
Sentinel(v) ==
  CASE v = "modules"      -> <<"a", "l", "l">>
    [] v = "compositions" -> <<"A", "l", "l">>
    [] OTHER              -> <<>>

ViewOf(L) == IF LoaderOf(L) = "modules" THEN "modules" ELSE "datasets"

AssetName(L) ==
  CASE LoaderOf(L) = "modules"   -> "modules.json"
    [] LoaderOf(L) = "community" -> "datasets.json"
    [] LoaderOf(L) = "sdrbench"  -> "sdrbench-datasets.json"

ErrorMessage(L) ==
  CASE LoaderOf(L) = "modules"   -> "Failed to load modules. Please try again later."
    [] LoaderOf(L) = "community" -> "Failed to load community datasets. Please try again later."
    [] LoaderOf(L) = "sdrbench"  -> ""

\* The collection a loader writes.
CollectionOf(L) ==
  CASE LoaderOf(L) = "modules"   -> modules
    [] LoaderOf(L) = "community" -> communityDatasets
    [] LoaderOf(L) = "sdrbench"  -> sdrbenchDatasets

\* The locals of a loader that has never run.  timers holds the abort timers
\* still armed: [left |-> ms to go, live |-> its request has not settled].
\* The other fields are history of the invocation: the candidates requested,
\* how each attempt ended ("ok" or "failed"), why the latest failure happened,
\* the number of requests sent and not settled, the body the successful
\* attempt resolved with (none or one), the collection at the start.
IdleLoader ==
  [ pc |-> "idle", candidates |-> <<>>, idx |-> 0, req |-> "none",
    lastErr |-> FALSE, timers |-> {}, requested |-> <<>>, attempts |-> <<>>,
    lastFailure |-> "none", inFlight |-> 0, resolved |-> <<>>,
    before |-> EmptyArray ]

Init ==
  /\ BASE_URL \in DeployBases
  /\ view = "none"
  /\ modules = EmptyArray
  /\ communityDatasets = EmptyArray
  /\ sdrbenchDatasets = EmptyArray
  /\ compositions = EmptyArray
  /\ loading = FALSE
  /\ error = ""
  /\ sdrError = ""
  /\ ld = [L \in Invocations |-> IdleLoader]
  /\ loadAllPc = "idle"
  /\ compReq = "none"
  /\ searchQuery = <<>>
  /\ selectedCategory = <<>>
  /\ routeHash = <<>>
  /\ domTimers = {}
  /\ cards = {}
  /\ highlighted = {}
  /\ scrolledTo = 0
  /\ repoSlug = <<>>
  /\ uploadForm = EmptyForm
  /\ opened = <<>>

\* ---------------------------------------------------------------- tryFetch

LiveTimer  == [left |-> FetchTimeoutMs, live |-> TRUE]

\* clearTimeout(to) for the request that just settled.
ClearTimer(timers) == {t \in timers : ~t.live}

\* The request settled without clearTimeout: its timer stays armed and will
\* abort a controller nobody listens to.
OrphanTimer(timers) == {[t EXCEPT !.live = FALSE] : t \in timers}

\* The Modules page chains .then(data => { clearTimeout(to); ... }) after the
\* status check, so the timer is cleared on a non-ok status as well; the
\* Datasets page returns from the executor before its clearTimeout.
ClearsTimerOnHttpError(L) == LoaderOf(L) = "modules"

\* tryFetch(url): new AbortController, setTimeout(abort, ms), fetch(url).
tryFetch(rec, i) ==
  [rec EXCEPT !.idx = i, !.req = "pending",
              !.timers = @ \cup {LiveTimer},
              !.requested = Append(@, i),
              !.inFlight = @ + 1]

\* A request is outstanding: sent, and neither resolved nor rejected yet.
Outstanding(L) == ld[L].req \in {"pending", "body"}

\* ------------------------------------------------------- the fallback loop

\* Only loadModules and loadCommunityDatasets keep a lastErr.
TracksLastErr(L) == LoaderOf(L) \in {"modules", "community"}

\* The locals at the start of an invocation; timers of earlier invocations
\* that were never cleared are still armed.
BeginLoad(L, old, coll) ==
  tryFetch([ IdleLoader EXCEPT !.pc = "awaiting",
                               !.candidates = Candidates(BASE_URL, AssetName(L)),
                               !.timers = ClearTimer(old.timers),
                               !.before = coll ], 1)

\* The promise of the running attempt is rejected: its request is over.
Rejected(L, rec, kind) ==
  [rec EXCEPT !.req = "none",
              !.inFlight = @ - 1,
              !.attempts = Append(@, "failed"),
              !.lastFailure = kind,
              !.timers = IF kind = "http" /\ ~ClearsTimerOnHttpError(L)
                         THEN OrphanTimer(@)
                         ELSE ClearTimer(@)]

\* catch (e) { console.warn(...); lastErr = e; } and the next turn of the
\* loop, or the end of the loop when the candidates are exhausted.
AfterFailureStops(L, rec, kind) ==
  [Rejected(L, rec, kind) EXCEPT !.lastErr = TracksLastErr(L), !.pc = "done"]
AfterFailureForgets(L, rec, kind) ==
  LET caught == Rejected(L, rec, kind)
  IN  IF rec.idx < Len(rec.candidates)
      THEN tryFetch(caught, rec.idx + 1)
      ELSE [caught EXCEPT !.pc = "done"]
AfterFailure(L, rec, kind) ==
  LET caught == [Rejected(L, rec, kind) EXCEPT !.lastErr = TracksLastErr(L)]
  IN  IF rec.idx < Len(rec.candidates)
      THEN tryFetch(caught, rec.idx + 1)
      ELSE [caught EXCEPT !.pc = "done"]

\* The promise of the running attempt is resolved with the parsed body.
Resolved(rec, data) ==
  [rec EXCEPT !.req = "none",
              !.inFlight = @ - 1,
              !.attempts = Append(@, "ok"),
              !.resolved = <<data>>,
              !.timers = ClearTimer(@)]

\* const data = await tryFetch(url); ...; lastErr = undefined; break;
AfterSuccessNoBreak(L, rec, data) ==
  LET got == [Resolved(rec, data) EXCEPT !.lastErr = FALSE]
  IN  IF rec.idx < Len(rec.candidates)
      THEN tryFetch(got, rec.idx + 1)
      ELSE [got EXCEPT !.pc = "done"]
AfterSuccessRetriesUnusable(L, rec, data) ==
  LET got == [Resolved(rec, data) EXCEPT !.lastErr = FALSE]
  IN  IF /\ L = "sdrbench"
         /\ ~(IsArray(data) /\ Len(data.items) > 0)
         /\ rec.idx < Len(rec.candidates)
      THEN tryFetch(got, rec.idx + 1)
      ELSE [got EXCEPT !.pc = "done"]
AfterSuccessKeepsErr(L, rec, data) ==
  [Resolved(rec, data) EXCEPT !.pc = "done"]
AfterSuccess(L, rec, data) ==
  [Resolved(rec, data) EXCEPT !.lastErr = FALSE, !.pc = "done"]

\* modules.value = Array.isArray(data) ? data : [];
AdoptModulesKeepsLoaded(data) == IF IsArray(data) THEN data ELSE modules
AdoptModules(data) == IF IsArray(data) THEN data ELSE EmptyArray

\* communityDatasets.value = Array.isArray(data) ? data : [];
AdoptCommunity(data) == IF IsArray(data) THEN data ELSE EmptyArray

\* if (Array.isArray(data) && data.length) sdrbenchDatasets.value = data;
AdoptSdrbenchUnchecked(current, data) == data
AdoptSdrbench(current, data) ==
  IF IsArray(data) /\ Len(data.items) > 0 THEN data ELSE current

\* The identifier SDRBENCH_EMBEDDED is used once and declared nowhere in the
\* component: evaluating it throws a ReferenceError.
SDRBENCH_EMBEDDED == [declared |-> FALSE, value |-> NotAnArray]

\* try { sdrbenchDatasets.value = Array.isArray(SDRBENCH_EMBEDDED)
\*         ? SDRBENCH_EMBEDDED : []; } catch (e) { sdrbenchDatasets.value = []; }
EmbeddedOrEmpty ==
  IF SDRBENCH_EMBEDDED.declared /\ IsArray(SDRBENCH_EMBEDDED.value)
  THEN SDRBENCH_EMBEDDED.value
  ELSE EmptyArray

\* The value loadSdrbenchDatasets gives the collection before any fetch.
ResetSdrbenchKeepsOverride(current) ==
  IF Len(current.items) > 0 THEN current ELSE EmbeddedOrEmpty
ResetSdrbench(current) == EmbeddedOrEmpty

\* if (lastErr) { error.value = '...'; }
ErrorAfterLoopNever(L, rec, err) == err
ErrorAfterLoop(L, rec, err) ==
  IF rec.pc = "done" /\ rec.lastErr THEN ErrorMessage(L) ELSE err

\* loading.value = false; at the end of loadModules (loadAll clears the
\* Datasets page's flag itself, after Promise.allSettled).
LoadingAfterLoopEarly(L, rec, cur) ==
  IF LoaderOf(L) = "modules" THEN FALSE ELSE cur
LoadingAfterLoopNever(L, rec, cur) == cur
LoadingAfterLoopFirstSettled(L, rec, cur) ==
  IF rec.pc = "done" THEN FALSE ELSE cur
LoadingAfterLoop(L, rec, cur) ==
  IF LoaderOf(L) = "modules" /\ rec.pc = "done" THEN FALSE ELSE cur

\* catch (e) { /* Non-fatal; keep embedded data */ console.warn(...); }
\* loadSdrbenchDatasets never writes sdrError after clearing it.
SdrErrorAfterLoopReports(L, rec, err) ==
  IF L = "sdrbench" /\ rec.pc = "done" /\ rec.attempts[Len(rec.attempts)] = "failed"
  THEN "Failed to load SDRBench datasets." ELSE err
SdrErrorAfterLoop(L, rec, err) == err

\* ---------------------------------------------------- search and grouping

\* The positions of a collection, in order.
Positions(collection) == [p \in 1..Len(collection.items) |-> p]

\* The record at a position of a collection.
RecordAt(collection, p) == Catalog[collection.items[p]]

\* The callback of the text filter of filteredCompositions.  || stops at the
\* first operand that is true; c.tags.some throws a TypeError when c.tags is
\* undefined; ?. makes usedIn and capabilities optional.
MatchComposition(c, query) ==
  IF Hit(c.name, query) \/ Hit(c.description, query) THEN "yes"
  ELSE IF IsMissing(c.tags) THEN "throw"
  ELSE IF SomeHit(ValueOf(c.tags), query) THEN "yes"
  ELSE IF ~IsMissing(c.usedIn) /\ SomeHit(ValueOf(c.usedIn), query) THEN "yes"
  ELSE IF /\ ~IsMissing(c.capabilities)
          /\ \E i \in 1..Len(ValueOf(c.capabilities)) :
               \/ Hit(ValueOf(c.capabilities)[i].name, query)
               \/ Hit(ValueOf(c.capabilities)[i].description, query)
       THEN "yes"
  ELSE "no"

\* The callback of the text filter of modulesByCategory: name, description
\* and tags.
MatchModuleWithFeatures(m, query) ==
  IF Hit(m.name, query) \/ Hit(m.description, query) THEN "yes"
  ELSE IF IsMissing(m.tags) THEN "throw"
  ELSE IF SomeHit(ValueOf(m.tags), query) \/ SomeHit(m.features, query) THEN "yes"
  ELSE "no"
MatchModule(m, query) ==
  IF Hit(m.name, query) \/ Hit(m.description, query) THEN "yes"
  ELSE IF IsMissing(m.tags) THEN "throw"
  ELSE IF SomeHit(ValueOf(m.tags), query) THEN "yes"
  ELSE "no"

\* c => c.category === selectedCategory.value
InCategory(c, selected) == IF c.category = selected THEN "yes" ELSE "no"

\* The outcome of a computed property: it threw, or it returned the positions
\* it kept.
Threw == [threw |-> TRUE, kept |-> <<>>]
Returned(kept) == [threw |-> FALSE, kept |-> kept]

\* const filteredCompositions = computed(...): the category filter, then the
\* text filter.
FilterCompositions(collection, query, selected) ==
  IF ~IsArray(collection) THEN Threw
  ELSE
    LET InCat == [p \in 1..Len(collection.items) |->
                    InCategory(RecordAt(collection, p), selected)]
        byCategory == IF selected # Sentinel("compositions")
                      THEN FilterPositions(Positions(collection), InCat)
                      ELSE Positions(collection)
        Match == [p \in 1..Len(collection.items) |->
                    MatchComposition(RecordAt(collection, p), ToLowerCase(query))]
    IN  IF query = <<>> THEN Returned(byCategory)
        ELSE IF Throws(byCategory, Match) THEN Threw
        ELSE Returned(FilterPositions(byCategory, Match))

\* let filtered = modules.value; ... in modulesByCategory: the text filter,
\* then the category filter.
FilterModulesNewestFirst(collection, query, selected) ==
  IF ~IsArray(collection) THEN Threw
  ELSE
    LET Match == [p \in 1..Len(collection.items) |->
                    MatchModule(RecordAt(collection, p), ToLowerCase(query))]
        InCat == [p \in 1..Len(collection.items) |->
                    InCategory(RecordAt(collection, p), selected)]
        searched == IF query # <<>>
                    THEN FilterPositions(Positions(collection), Match)
                    ELSE Positions(collection)
        kept     == IF selected # Sentinel("modules")
                    THEN FilterPositions(searched, InCat)
                    ELSE searched
    IN  IF query # <<>> /\ Throws(Positions(collection), Match) THEN Threw
        ELSE Returned([i \in 1..Len(kept) |-> kept[Len(kept) + 1 - i]])
FilterModules(collection, query, selected) ==
  IF ~IsArray(collection) THEN Threw
  ELSE
    LET Match == [p \in 1..Len(collection.items) |->
                    MatchModule(RecordAt(collection, p), ToLowerCase(query))]
        InCat == [p \in 1..Len(collection.items) |->
                    InCategory(RecordAt(collection, p), selected)]
        searched == IF query # <<>>
                    THEN FilterPositions(Positions(collection), Match)
                    ELSE Positions(collection)
    IN  IF query # <<>> /\ Throws(Positions(collection), Match) THEN Threw
        ELSE IF selected # Sentinel("modules")
        THEN Returned(FilterPositions(searched, InCat))
        ELSE Returned(searched)

\* const grouped = {}; filtered.forEach(module => { ... push(module) }):
\* the buckets in the order their keys were inserted, which is the order
\* `v-for="(categoryModules, category) in modulesByCategory"` walks them in.
RECURSIVE GroupOverwrites(_, _)
GroupOverwrites(collection, kept) ==
  IF kept = <<>> THEN <<>>
  ELSE LET front == GroupOverwrites(collection, SubSeq(kept, 1, Len(kept) - 1))
           p     == kept[Len(kept)]
           key   == RecordAt(collection, p).category
       IN  IF \E b \in 1..Len(front) : front[b].category = key
           THEN [b \in 1..Len(front) |->
                  IF front[b].category = key
                  THEN [front[b] EXCEPT !.members = <<p>>]
                  ELSE front[b]]
           ELSE Append(front, [category |-> key, members |-> <<p>>])
RECURSIVE GroupNewestBucketFirst(_, _)
GroupNewestBucketFirst(collection, kept) ==
  IF kept = <<>> THEN <<>>
  ELSE LET front == GroupNewestBucketFirst(collection, SubSeq(kept, 1, Len(kept) - 1))
           p     == kept[Len(kept)]
           key   == RecordAt(collection, p).category
       IN  IF \E b \in 1..Len(front) : front[b].category = key
           THEN [b \in 1..Len(front) |->
                  IF front[b].category = key
                  THEN [front[b] EXCEPT !.members = Append(@, p)]
                  ELSE front[b]]
           ELSE <<[category |-> key, members |-> <<p>>]>> \o front
RECURSIVE Group(_, _)
Group(collection, kept) ==
  IF kept = <<>> THEN <<>>
  ELSE LET front == Group(collection, SubSeq(kept, 1, Len(kept) - 1))
           p     == kept[Len(kept)]
           key   == RecordAt(collection, p).category
       IN  IF \E b \in 1..Len(front) : front[b].category = key
           THEN [b \in 1..Len(front) |->
                  IF front[b].category = key
                  THEN [front[b] EXCEPT !.members = Append(@, p)]
                  ELSE front[b]]
           ELSE Append(front, [category |-> key, members |-> <<p>>])

\* The values the page computes from its state.
filteredCompositions ==
  FilterCompositions(compositions, searchQuery, selectedCategory)
filteredModules == FilterModules(modules, searchQuery, selectedCategory)
modulesByCategory ==
  IF filteredModules.threw THEN <<>>
  ELSE Group(modules, filteredModules.kept)

\* const categories = computed(() => { const cats = new Set(xs.map(c =>
\* c.category)); return [sentinel, ...Array.from(cats).sort()]; })
CategoriesOfShown(collection, sentinel) ==
  LET shown == IF view = "modules" THEN filteredModules.kept
               ELSE filteredCompositions.kept
      cats  == [i \in 1..Len(shown) |-> RecordAt(collection, shown[i]).category]
  IN  <<sentinel>> \o Sort(Dedup(cats))
Categories(collection, sentinel) ==
  LET cats == [p \in 1..Len(collection.items) |-> RecordAt(collection, p).category]
  IN  <<sentinel>> \o Sort(Dedup(cats))
categories ==
  IF view = "modules" THEN Categories(modules, Sentinel("modules"))
  ELSE Categories(compositions, Sentinel("compositions"))

\* ------------------------------------------------------------- deep link

\* <div :id="module.id" class="card ..."> for every module of
\* modulesByCategory: the identifiers of the cards in the document.  A
\* getter that throws leaves the document as it was.
CardsOfWholeCollection(collection, query, selected, old) ==
  {RecordAt(collection, p).id : p \in 1..Len(collection.items)}
CardsOf(collection, query, selected, old) ==
  LET out == FilterModules(collection, query, selected)
  IN  IF out.threw THEN old
      ELSE {RecordAt(collection, out.kept[i]).id : i \in 1..Len(out.kept)}

\* A timer callback keeps the element it found; a card that has left the
\* document is no card of the document any more.
Detach(timers, shown) ==
  { IF t.kind = "unhighlight" /\ t.target \notin shown
    THEN [t EXCEPT !.target = 0] ELSE t : t \in timers }

\* if (route.hash) { setTimeout(() => { ... }, 300); } after the loop.
LookupArmedAtOnce(rec) ==
  IF rec.pc = "done" /\ routeHash # <<>>
  THEN {[kind |-> "lookup", left |-> 0, target |-> 0]}
  ELSE {}
LookupArmed(rec) ==
  IF rec.pc = "done" /\ routeHash # <<>>
  THEN {[kind |-> "lookup", left |-> ScrollDelayMs, target |-> 0]}
  ELSE {}

\* The Modules page renders the list again: cards of modules no longer shown
\* leave the document, with their classes.
Render(collection, query, selected, armed) ==
  LET shown == CardsOf(collection, query, selected, cards)
  IN  /\ cards' = shown
      /\ highlighted' = highlighted \cap shown
      /\ domTimers' = Detach(domTimers, shown) \cup armed
      /\ UNCHANGED << routeHash, scrolledTo >>

\* What a settled attempt writes: the loader's locals, the collection when
\* the attempt succeeded with `data`, the error message and the loading flag
\* when the loop has ended.
Writes(L, rec, success, data) ==
  /\ ld' = [ld EXCEPT ![L] = rec]
  /\ modules' = IF LoaderOf(L) = "modules" /\ success
                THEN AdoptModules(data) ELSE modules
  /\ communityDatasets' =
       IF L = "community" /\ success THEN AdoptCommunity(data) ELSE communityDatasets
  /\ sdrbenchDatasets' =
       IF L = "sdrbench" /\ success THEN AdoptSdrbench(sdrbenchDatasets, data)
       ELSE sdrbenchDatasets
  /\ error' = ErrorAfterLoop(L, rec, error)
  /\ loading' = LoadingAfterLoop(L, rec, loading)
  /\ sdrError' = SdrErrorAfterLoop(L, rec, sdrError)
  /\ IF LoaderOf(L) = "modules"
     THEN Render(IF success THEN AdoptModules(data) ELSE modules,
                 searchQuery, selectedCategory, LookupArmed(rec))
     ELSE UNCHANGED linkVars
  /\ UNCHANGED << filterVars, formVars, BASE_URL, view, compositions,
                  loadAllPc, compReq >>

\* ------------------------------------------------------------- the loaders

\* async function loadModules(), up to its first await, with its locals
\* kept as invocation I.
InvokeLoadModulesSupersedes(I) ==
  /\ loading' = TRUE
  /\ error' = ""
  /\ ld' = [J \in DOMAIN ld |->
             IF J = I THEN BeginLoad(I, ld[I], modules)
             ELSE IF LoaderOf(J) = "modules" THEN IdleLoader
             ELSE ld[J]]
  /\ UNCHANGED << linkVars, formVars, BASE_URL, modules, communityDatasets,
                  sdrbenchDatasets, compositions, sdrError, loadAllPc, compReq >>
InvokeLoadModules(I) ==
  /\ loading' = TRUE
  /\ error' = ""
  /\ ld' = [ld EXCEPT ![I] = BeginLoad(I, @, modules)]
  /\ UNCHANGED << linkVars, formVars, BASE_URL, modules, communityDatasets,
                  sdrbenchDatasets, compositions, sdrError, loadAllPc, compReq >>

loadModules == InvokeLoadModules("modules")

\* loadModules() called while its earlier invocation is awaiting a
\* candidate: the function tests nothing before it starts.
loadModulesAgain ==
  /\ view = "modules"
  /\ ld["modules"].pc = "awaiting"
  /\ ld[Again].pc = "idle"
  /\ InvokeLoadModules(Again)
  /\ UNCHANGED << view, filterVars >>

\* async function loadAll(), up to its await: loading.value = true, then
\* loadCommunityDatasets() and loadSdrbenchDatasets(), each run up to its
\* first await.
loadAll ==
  /\ loading' = TRUE
  /\ error' = ""
  /\ sdrError' = ""
  /\ sdrbenchDatasets' = ResetSdrbench(sdrbenchDatasets)
  /\ ld' = [ld EXCEPT
             !["community"] = BeginLoad("community", @, communityDatasets),
             !["sdrbench"]  = BeginLoad("sdrbench", @, sdrbenchDatasets)]
  /\ loadAllPc' = "awaiting"
  /\ UNCHANGED << linkVars, formVars, BASE_URL, modules, communityDatasets, compositions,
                  compReq >>

\* const loadCompositions = async () => { ... }, up to its first await:
\* fetch(import.meta.env.BASE_URL + 'compositions.json'), with no timer.
loadCompositions ==
  /\ compReq' = "pending"
  /\ UNCHANGED << linkVars, formVars, BASE_URL, modules, communityDatasets,
                  sdrbenchDatasets, compositions, loading, error, sdrError, ld,
                  loadAllPc >>

\* onMounted(loadModules) / onMounted(loadAll) / onMounted(loadCompositions)
Mount(v) ==
  /\ view = "none"
  /\ view' = v
  /\ searchQuery' = <<>>
  /\ selectedCategory' = Sentinel(v)
  /\ CASE v = "modules"      -> loadModules
       [] v = "datasets"     -> loadAll
       [] v = "compositions" -> loadCompositions

\* :disabled="loading" on the Reload button of either page.
ReloadDisabledNever == FALSE
ReloadDisabled == loading

\* <button :disabled="loading" @click="loadModules"> and
\* <button :disabled="loading" @click="loadAll">
Reload(v) ==
  /\ view = v
  /\ v \in {"modules", "datasets"}
  /\ ~ReloadDisabled
  /\ UNCHANGED << view, filterVars >>
  /\ IF v = "modules" THEN loadModules ELSE loadAll

\* await Promise.allSettled([...]); loading.value = false;
LoadAllSettled ==
  /\ loadAllPc = "awaiting"
  /\ ld["community"].pc = "done"
  /\ ld["sdrbench"].pc = "done"
  /\ loadAllPc' = "done"
  /\ loading' = FALSE
  /\ UNCHANGED << filterVars, linkVars, formVars, BASE_URL, view, modules, communityDatasets, sdrbenchDatasets,
                  compositions, error, sdrError, ld, compReq >>

\* ------------------------------------------------- the network and the clock

\* fetch resolves with res.ok: the loader goes on to res.json().
ResponseOk(L) ==
  /\ ld[L].req = "pending"
  /\ ld' = [ld EXCEPT ![L].req = "body"]
  /\ UNCHANGED << filterVars, linkVars, formVars, BASE_URL, view, modules, communityDatasets, sdrbenchDatasets,
                  compositions, loading, error, sdrError, loadAllPc, compReq >>

\* fetch resolves with !res.ok: reject(new Error(`HTTP ${res.status} @ ${url}`)).
ResponseHttpError(L) ==
  /\ ld[L].req = "pending"
  /\ Writes(L, AfterFailure(L, ld[L], "http"), FALSE, NotAnArray)

\* fetch rejects (no connection, DNS, CORS): reject(e).
NetworkError(L) ==
  /\ ld[L].req = "pending"
  /\ Writes(L, AfterFailure(L, ld[L], "network"), FALSE, NotAnArray)

\* res.json() resolves: clearTimeout(to); resolve(data).
BodyParsed(L, data) ==
  /\ ld[L].req = "body"
  /\ Writes(L, AfterSuccess(L, ld[L], data), TRUE, data)

\* res.json() rejects: the body is not JSON.
BodyInvalid(L) ==
  /\ ld[L].req = "body"
  /\ Writes(L, AfterFailure(L, ld[L], "parse"), FALSE, NotAnArray)

\* setTimeout(() => controller.abort(), ms) comes due.  Aborting the request
\* of the running attempt rejects its fetch or its res.json(); aborting a
\* request that has settled does nothing.
TimerFires(L) ==
  \E t \in ld[L].timers :
    /\ t.left = 0
    /\ IF t.live
       THEN Writes(L, AfterFailure(L, ld[L], "timeout"), FALSE, NotAnArray)
       ELSE /\ ld' = [ld EXCEPT ![L].timers = @ \ {t}]
            /\ UNCHANGED << filterVars, linkVars, formVars, BASE_URL, view, modules, communityDatasets,
                            sdrbenchDatasets, compositions, loading, error,
                            sdrError, loadAllPc, compReq >>

AllTimers == UNION {ld[L].timers : L \in Invocations}

\* The delays of all armed timers, abort timers and deep-link timers alike.
TimeLeft == {t.left : t \in AllTimers} \cup {t.left : t \in domTimers}

\* Time passes up to the moment the next timer comes due.
Tick ==
  /\ TimeLeft # {}
  /\ \A left \in TimeLeft : left > 0
  /\ LET d == CHOOSE d \in TimeLeft : \A left \in TimeLeft : d <= left
     IN  /\ ld' = [L \in Invocations |->
                    [ld[L] EXCEPT !.timers = {[t EXCEPT !.left = @ - d] : t \in @}]]
         /\ domTimers' = {[t EXCEPT !.left = @ - d] : t \in domTimers}
  /\ UNCHANGED << filterVars, formVars, routeHash, cards, highlighted,
                  scrolledTo, BASE_URL, view, modules, communityDatasets, sdrbenchDatasets,
                  compositions, loading, error, sdrError, loadAllPc, compReq >>

\* The Compositions page: const response = await fetch(...).  The status is
\* not looked at.
CompositionsResponse ==
  /\ compReq = "pending"
  /\ compReq' = "body"
  /\ UNCHANGED << filterVars, linkVars, formVars, BASE_URL, view, modules, communityDatasets, sdrbenchDatasets,
                  compositions, loading, error, sdrError, ld, loadAllPc >>

\* compositions.value = await response.json();
CompositionsBodyParsed(data) ==
  /\ compReq = "body"
  /\ compReq' = "loaded"
  /\ compositions' = data
  /\ UNCHANGED << filterVars, linkVars, formVars, BASE_URL, view, modules, communityDatasets, sdrbenchDatasets,
                  loading, error, sdrError, ld, loadAllPc >>

\* catch (error) { console.error('Failed to load compositions:', error); }
\* after fetch rejected or response.json() rejected.
CompositionsFailed ==
  /\ compReq \in {"pending", "body"}
  /\ compReq' = "failed"
  /\ UNCHANGED << filterVars, linkVars, formVars, BASE_URL, view, modules, communityDatasets, sdrbenchDatasets,
                  compositions, loading, error, sdrError, ld, loadAllPc >>

\* ------------------------------------------------------------ user input

\* The texts typed into the search box and the values the category selector
\* can hold.
Queries == {<<>>, <<"A", "B">>, <<"l">>, <<"b", "a">>}
Selectable(v) == {Sentinel(v), <<"B">>, <<"a">>, <<"A", "b">>, <<"b">>}
AllSelectable == Selectable("modules") \cup Selectable("compositions")

\* <input v-model="searchQuery">
TypeQuery(q) ==
  /\ view \in {"modules", "compositions"}
  /\ searchQuery' = q
  /\ IF view = "modules"
     THEN Render(modules, q, selectedCategory, {})
     ELSE UNCHANGED linkVars
  /\ UNCHANGED << formVars, BASE_URL, view, modules, communityDatasets, sdrbenchDatasets,
                  compositions, loading, error, sdrError, ld, loadAllPc,
                  compReq, selectedCategory >>

\* <select v-model="selectedCategory">
SelectCategory(c) ==
  /\ view \in {"modules", "compositions"}
  /\ c \in Selectable(view)
  /\ selectedCategory' = c
  /\ IF view = "modules"
     THEN Render(modules, searchQuery, c, {})
     ELSE UNCHANGED linkVars
  /\ UNCHANGED << formVars, BASE_URL, view, modules, communityDatasets, sdrbenchDatasets,
                  compositions, loading, error, sdrError, ld, loadAllPc,
                  compReq, searchQuery >>

\* The 300 ms timer comes due: const element =
\* document.querySelector(route.hash); if (element) { scrollIntoView,
\* classList.add('highlight-card'), setTimeout(remove, 2000) }.
LookupFires ==
  \E t \in domTimers :
    /\ t.kind = "lookup" /\ t.left = 0
    /\ LET element == routeHash[2]
       IN  IF element \in cards
           THEN /\ scrolledTo' = element
                /\ highlighted' = highlighted \cup {element}
                /\ domTimers' = (domTimers \ {t}) \cup
                     {[kind |-> "unhighlight", left |-> HighlightMs,
                       target |-> element]}
           ELSE /\ domTimers' = domTimers \ {t}
                /\ UNCHANGED << scrolledTo, highlighted >>
    /\ UNCHANGED << filterVars, formVars, routeHash, cards, BASE_URL, view, modules,
                    communityDatasets, sdrbenchDatasets, compositions, loading,
                    error, sdrError, ld, loadAllPc, compReq >>

\* The 2000 ms timer comes due: element.classList.remove('highlight-card').
UnhighlightFires ==
  \E t \in domTimers :
    /\ t.kind = "unhighlight" /\ t.left = 0
    /\ highlighted' = highlighted \ {t.target}
    /\ domTimers' = domTimers \ {t}
    /\ UNCHANGED << filterVars, formVars, routeHash, cards, scrolledTo, BASE_URL, view,
                    modules, communityDatasets, sdrbenchDatasets, compositions,
                    loading, error, sdrError, ld, loadAllPc, compReq >>

\* ------------------------------------------------------ submission form

\* <input v-model="uploadForm.name"> and the other four controls.
EditField(f, text) ==
  /\ view = "datasets"
  /\ text \in FieldTexts(f)
  /\ uploadForm' = [uploadForm EXCEPT ![f] = text]
  /\ UNCHANGED << filterVars, linkVars, repoSlug, opened, BASE_URL, view,
                  modules, communityDatasets, sdrbenchDatasets, compositions,
                  loading, error, sdrError, ld, loadAllPc, compReq >>

\* function resetForm()
resetForm == uploadForm' = EmptyForm

\* function openIssue(): const url = buildIssueUrl(); window.open(url,
\* '_blank', 'noopener'); resetForm();
openIssueResetsFirst ==
  /\ view = "datasets"
  /\ resetForm
  /\ opened' = << BuildIssueUrl(repoSlug, uploadForm') >>
  /\ UNCHANGED << filterVars, linkVars, repoSlug, BASE_URL, view, modules,
                  communityDatasets, sdrbenchDatasets, compositions, loading,
                  error, sdrError, ld, loadAllPc, compReq >>
openIssue ==
  /\ view = "datasets"
  /\ opened' = << BuildIssueUrl(repoSlug, uploadForm) >>
  /\ resetForm
  /\ UNCHANGED << filterVars, linkVars, repoSlug, BASE_URL, view, modules,
                  communityDatasets, sdrbenchDatasets, compositions, loading,
                  error, sdrError, ld, loadAllPc, compReq >>

Next ==
  \/ \E v \in Views : Mount(v)
  \/ \E v \in Views : Reload(v)
  \/ LoadAllSettled
  \/ \E L \in Loaders : ResponseOk(L)
  \/ \E L \in Loaders : ResponseHttpError(L)
  \/ \E L \in Loaders : NetworkError(L)
  \/ \E L \in Loaders, data \in JsonValues : BodyParsed(L, data)
  \/ \E L \in Loaders : BodyInvalid(L)
  \/ \E L \in Loaders : TimerFires(L)
  \/ Tick
  \/ CompositionsResponse
  \/ \E data \in JsonValues : CompositionsBodyParsed(data)
  \/ CompositionsFailed

Spec == Init /\ [][Next]_vars

\* The event loop runs every callback that is due: time passes, a timer
\* that has run out fires, and the continuation of a settled promise runs.
Fairness ==
  /\ WF_vars(Tick)
  /\ \A L \in Loaders : WF_vars(TimerFires(L))
  /\ WF_vars(LoadAllSettled)

\* The Modules page with its Reload button and the Datasets page as
\* mounted, under that event loop.
NextFair ==
  \/ \E v \in {"modules", "datasets"} : Mount(v)
  \/ Reload("modules")
  \/ LoadAllSettled
  \/ \E L \in Loaders : ResponseOk(L)
  \/ \E L \in Loaders : ResponseHttpError(L)
  \/ \E L \in Loaders : NetworkError(L)
  \/ \E L \in Loaders, data \in JsonValues : BodyParsed(L, data)
  \/ \E L \in Loaders : BodyInvalid(L)
  \/ \E L \in Loaders : TimerFires(L)
  \/ Tick

SpecFair == Init /\ [][NextFair]_vars /\ Fairness

\* Every build-time base path of at most MaxBaseLen tokens, with the network
\* down: each loader builds its candidates and walks through all of them.
InitUrls ==
  /\ BASE_URL \in AllBases
  /\ view = "none"
  /\ modules = EmptyArray
  /\ communityDatasets = EmptyArray
  /\ sdrbenchDatasets = EmptyArray
  /\ compositions = EmptyArray
  /\ loading = FALSE
  /\ error = ""
  /\ sdrError = ""
  /\ ld = [L \in Invocations |-> IdleLoader]
  /\ loadAllPc = "idle"
  /\ compReq = "none"
  /\ searchQuery = <<>>
  /\ selectedCategory = <<>>
  /\ routeHash = <<>>
  /\ domTimers = {}
  /\ cards = {}
  /\ highlighted = {}
  /\ scrolledTo = 0
  /\ repoSlug = <<>>
  /\ uploadForm = EmptyForm
  /\ opened = <<>>

NextUrls ==
  \/ \E v \in Views : Mount(v)
  \/ \E L \in Loaders : NetworkError(L)
  \/ LoadAllSettled
  \/ CompositionsFailed

SpecUrls == InitUrls /\ [][NextUrls]_vars

\* The Modules page with loadModules called once more while the call made
\* on mount is still awaiting: two invocations run side by side.
BothInvocations == {"modules", Again}

NextReentrant ==
  \/ Mount("modules")
  \/ loadModulesAgain
  \/ \E I \in BothInvocations : ResponseOk(I)
  \/ \E I \in BothInvocations : ResponseHttpError(I)
  \/ \E I \in BothInvocations : NetworkError(I)
  \/ \E I \in BothInvocations, data \in JsonValues : BodyParsed(I, data)
  \/ \E I \in BothInvocations : BodyInvalid(I)
  \/ \E I \in BothInvocations : TimerFires(I)
  \/ Tick

SpecReentrant == Init /\ [][NextReentrant]_vars

\* A page whose load has ended with a collection of catalog records, and a
\* user who types queries and selects categories.
LoadedWith(L, data) ==
  AfterSuccess(L, BeginLoad(L, IdleLoader, EmptyArray), data)

InitFilter ==
  /\ BASE_URL = <<"/">>
  /\ view \in {"modules", "compositions"}
  /\ \E data \in CatalogArrays :
       /\ modules = IF view = "modules" THEN AdoptModules(data) ELSE EmptyArray
       /\ compositions = IF view = "compositions" THEN data ELSE EmptyArray
       /\ ld = [L \in Invocations |->
                 IF L = "modules" /\ view = "modules"
                 THEN LoadedWith(L, data) ELSE IdleLoader]
  /\ communityDatasets = EmptyArray
  /\ sdrbenchDatasets = EmptyArray
  /\ loading = FALSE
  /\ error = ""
  /\ sdrError = ""
  /\ loadAllPc = "idle"
  /\ compReq = IF view = "compositions" THEN "loaded" ELSE "none"
  /\ searchQuery = <<>>
  /\ selectedCategory = Sentinel(view)
  /\ routeHash = <<>>
  /\ domTimers = {}
  /\ cards = IF view = "modules"
             THEN CardsOf(modules, searchQuery, selectedCategory, {}) ELSE {}
  /\ highlighted = {}
  /\ scrolledTo = 0
  /\ repoSlug = <<>>
  /\ uploadForm = EmptyForm
  /\ opened = <<>>

NextFilter ==
  \/ \E q \in Queries : TypeQuery(q)
  \/ \E c \in AllSelectable : SelectCategory(c)

SpecFilter == InitFilter /\ [][NextFilter]_vars

\* The Modules page entered through a link with an anchor.
Anchors == {<<"#", 1>>, <<"#", 2>>}

InitDeepLink ==
  /\ BASE_URL = <<"/">>
  /\ view = "none"
  /\ modules = EmptyArray
  /\ communityDatasets = EmptyArray
  /\ sdrbenchDatasets = EmptyArray
  /\ compositions = EmptyArray
  /\ loading = FALSE
  /\ error = ""
  /\ sdrError = ""
  /\ ld = [L \in Invocations |-> IdleLoader]
  /\ loadAllPc = "idle"
  /\ compReq = "none"
  /\ searchQuery = <<>>
  /\ selectedCategory = <<>>
  /\ routeHash \in Anchors
  /\ domTimers = {}
  /\ cards = {}
  /\ highlighted = {}
  /\ scrolledTo = 0
  /\ repoSlug = <<>>
  /\ uploadForm = EmptyForm
  /\ opened = <<>>

\* The Reload button of the Modules page, pressed while fewer than
\* MaxPending deep-link timers are armed.
ReloadWithAnchor ==
  /\ Cardinality(domTimers) < MaxPending
  /\ Reload("modules")

NextDeepLink ==
  \/ Mount("modules")
  \/ ReloadWithAnchor
  \/ ResponseOk("modules")
  \/ ResponseHttpError("modules")
  \/ NetworkError("modules")
  \/ \E data \in JsonValues : BodyParsed("modules", data)
  \/ BodyInvalid("modules")
  \/ TimerFires("modules")
  \/ Tick
  \/ LookupFires
  \/ UnhighlightFires
  \/ \E q \in {<<>>, <<"b", "a">>} : TypeQuery(q)

SpecDeepLink == InitDeepLink /\ [][NextDeepLink]_vars

\* The Modules page entered through a link with an anchor and loaded once,
\* with a user who types queries and selects categories before and after the
\* lookup.
NextDeepLinkFiltered ==
  \/ Mount("modules")
  \/ ResponseOk("modules")
  \/ ResponseHttpError("modules")
  \/ NetworkError("modules")
  \/ \E data \in JsonValues : BodyParsed("modules", data)
  \/ BodyInvalid("modules")
  \/ TimerFires("modules")
  \/ Tick
  \/ LookupFires
  \/ UnhighlightFires
  \/ \E q \in {<<>>, <<"b", "a">>} : TypeQuery(q)
  \/ \E c \in AllSelectable : SelectCategory(c)

SpecDeepLinkFiltered == InitDeepLink /\ [][NextDeepLinkFiltered]_vars

\* The Datasets page after its loads have ended without data, with either
\* kind of resolved slug, and a user who fills in the form and opens issues.
AllTexts == UNION {FieldTexts(f) : f \in Fields}

InitIssue ==
  /\ BASE_URL = <<"/">>
  /\ view = "datasets"
  /\ modules = EmptyArray
  /\ communityDatasets = EmptyArray
  /\ sdrbenchDatasets = EmbeddedOrEmpty
  /\ compositions = EmptyArray
  /\ loading = FALSE
  /\ error = ""
  /\ sdrError = ""
  /\ ld = [L \in Invocations |->
            IF LoaderOf(L) = "modules" THEN IdleLoader
            ELSE LoadedWith(L, EmptyArray)]
  /\ loadAllPc = "done"
  /\ compReq = "none"
  /\ searchQuery = <<>>
  /\ selectedCategory = Sentinel("datasets")
  /\ routeHash = <<>>
  /\ domTimers = {}
  /\ cards = {}
  /\ highlighted = {}
  /\ scrolledTo = 0
  /\ repoSlug \in RepoSlugs
  /\ uploadForm = EmptyForm
  /\ opened = <<>>

NextIssue ==
  \/ \E f \in Fields, text \in AllTexts : EditField(f, text)
  \/ openIssue

SpecIssue == InitIssue /\ [][NextIssue]_vars

\* ------------------------------------------------------------------ claims

Started(L)   == ld[L].pc # "idle"
Finished(L)  == ld[L].pc = "done"
AllFailed(L) ==
  /\ Len(ld[L].attempts) = Len(ld[L].candidates)
  /\ \A i \in 1..Len(ld[L].attempts) : ld[L].attempts[i] = "failed"
Succeeded(L) ==
  \E i \in 1..Len(ld[L].attempts) : ld[L].attempts[i] = "ok"

\* C1: each loader requests its candidates one at a time in priority order:
\* the requests made so far are candidates 1, 2, ..., k in that order, every
\* candidate before the k-th has failed, at most one request is in flight,
\* and a successful candidate is the last one requested.
C1_OneAtATimeInOrder ==
  \A L \in Loaders :
    LET rec == ld[L]
        k   == Len(rec.requested)
    IN  /\ k <= Len(rec.candidates)
        /\ rec.requested = [i \in 1..k |-> i]
        /\ rec.inFlight \in {0, 1}
        /\ (rec.inFlight = 1) = (rec.req \in {"pending", "body"})
        /\ Len(rec.attempts) = k - rec.inFlight
        /\ \A i \in 1..Len(rec.attempts) :
             /\ i < k => rec.attempts[i] = "failed"
             /\ rec.attempts[i] = "ok" => i = k /\ rec.pc = "done"

\* A load whose first candidate failed and whose second succeeded, with a
\* third candidate left that was not requested.
C1_Witness ==
  \E L \in Loaders :
    /\ Len(ld[L].candidates) = 3
    /\ ld[L].requested = <<1, 2>>
    /\ ld[L].attempts = <<"failed", "ok">>
    /\ ld[L].pc = "done"

\* C2: when a modules load or a community load has finished with every
\* candidate failed, its collection is the one it had when the load started
\* and the error message is not empty.
C2_AllFailedKeepsCollection ==
  \A L \in {"modules", "community"} :
    (Finished(L) /\ AllFailed(L)) =>
      /\ CollectionOf(L) = ld[L].before
      /\ error # ""

\* A reload that failed on all three candidates over a collection that an
\* earlier load had filled.
C2_Witness ==
  \E L \in {"modules", "community"} :
    /\ Finished(L) /\ AllFailed(L)
    /\ Len(ld[L].candidates) = 3
    /\ ld[L].before # EmptyArray
    /\ CollectionOf(L) = ld[L].before
    /\ error = ErrorMessage(L)

\* An attempt of loader L is rejected in this step.
AttemptFails(L) ==
  /\ Outstanding(L)
  /\ ld'[L].attempts = Append(ld[L].attempts, "failed")

\* The loader went on to the next candidate and changed nothing the user sees.
Advances(L) ==
  /\ ld'[L].pc = "awaiting"
  /\ ld'[L].idx = ld[L].idx + 1
  /\ ld'[L].req = "pending"
  /\ ld'[L].requested = Append(ld[L].requested, ld[L].idx + 1)
  /\ error' = error
  /\ sdrError' = sdrError
  /\ CollectionOf(L)' = CollectionOf(L)

\* C3: a non-ok status, an unparseable body and the abort timer coming due
\* while the request is outstanding each reject the running attempt, and
\* nothing else but a network error does; the timer comes due only when the
\* FetchTimeoutMs it was armed with have passed.  A rejected attempt that is
\* not the last makes the loader request the next candidate and sets no error
\* message; after the last one the load ends.
C3_FailureAdvances ==
  [][ \A L \in Loaders :
        /\ (ResponseHttpError(L) \/ BodyInvalid(L)) => AttemptFails(L)
        /\ (TimerFires(L) /\ \E t \in ld[L].timers : t.live /\ t.left = 0
                          /\ t \notin ld'[L].timers)
             => AttemptFails(L) /\ ld'[L].lastFailure = "timeout"
        /\ AttemptFails(L) =>
             /\ ld'[L].lastFailure \in {"timeout", "http", "parse", "network"}
             /\ ld'[L].lastFailure = "timeout" =>
                  \E t \in ld[L].timers : t.live /\ t.left = 0
             /\ ld'[L].lastFailure = "http" => ld[L].req = "pending"
             /\ ld'[L].lastFailure = "parse" => ld[L].req = "body"
             /\ IF ld[L].idx < Len(ld[L].candidates)
                THEN Advances(L)
                ELSE ld'[L].pc = "done" /\ ld'[L].req = "none"
        /\ (ld'[L].requested # ld[L].requested /\ ld'[L].req = "pending") =>
             \E t \in ld'[L].timers : t.live /\ t.left = FetchTimeoutMs
    ]_vars

\* The first candidate timed out while its body was being read, the second
\* has been requested and no error message is shown.
C3_Witness ==
  \E L \in Loaders :
    /\ ld[L].lastFailure = "timeout"
    /\ ld[L].attempts = <<"failed">>
    /\ ld[L].idx = 2
    /\ ld[L].req = "pending"
    /\ error = ""

\* C4: the loading flag of the mounted page is true whenever a candidate
\* attempt of one of its loaders is outstanding.
C4_LoadingWhileOutstanding ==
  \A L \in Loaders : Outstanding(L) => loading

\* The Datasets page with one of its two loads finished and a later
\* candidate of the other still outstanding.
C4_Witness ==
  /\ Finished("sdrbench")
  /\ Outstanding("community")
  /\ ld["community"].idx = 2
  /\ loading

\* C5: the error message is empty while a modules load or a community load
\* is running, and once the load has finished the message is non-empty
\* exactly when all of its candidates failed.
C5_ErrorIffAllFailed ==
  \A L \in {"modules", "community"} :
    /\ ld[L].pc = "awaiting" => error = ""
    /\ Finished(L) => ((error # "") = AllFailed(L))
    /\ Finished(L) /\ Succeeded(L) => error = ""

\* A load whose first two candidates failed and whose third succeeded.
C5_Witness ==
  \E L \in {"modules", "community"} :
    /\ Finished(L)
    /\ ld[L].attempts = <<"failed", "failed", "ok">>
    /\ error = ""

Suffix == <<"?", "ts=", NowToken>>
CacheBustCount(u) ==
  Cardinality({i \in 1..(Len(u) - 1) : u[i] = "?" /\ u[i + 1] = "ts="})
HasSuffix(u) ==
  Len(u) > Len(Suffix) /\ SubSeq(u, Len(u) - Len(Suffix) + 1, Len(u)) = Suffix
Unsuffixed(u) == IF HasSuffix(u) THEN SubSeq(u, 1, Len(u) - Len(Suffix)) ELSE u
FirstIndex(list, x) ==
  CHOOSE i \in 1..Len(list) : list[i] = x /\ \A j \in 1..(i - 1) : list[j] # x

\* The candidates of a started loader are the three forms without
\* duplicates, in priority order.
DedupedInOrder(L) ==
  LET c == ld[L].candidates
      f == ThreeForms(BASE_URL, AssetName(L))
  IN  /\ {Unsuffixed(c[i]) : i \in 1..Len(c)} = {f[j] : j \in 1..Len(f)}
      /\ Len(c) = Cardinality({f[j] : j \in 1..Len(f)})
      /\ \A i, j \in 1..Len(c) :
           i < j => FirstIndex(f, Unsuffixed(c[i])) < FirstIndex(f, Unsuffixed(c[j]))

\* C7 as stated: the candidate list is the deduplicated three forms in
\* priority order and every candidate carries the cache-busting parameter
\* exactly once.
C7_EveryCandidateBustedOnce ==
  \A L \in Loaders :
    Started(L) =>
      /\ DedupedInOrder(L)
      /\ \A i \in 1..Len(ld[L].candidates) :
           CacheBustCount(ld[L].candidates[i]) = 1

\* C7, amended: the candidate list is the deduplicated three forms in
\* priority order; a form without a '?' gets ?ts=<now> appended, once, and a
\* form that contains a '?' is left as it is, so that it carries the
\* parameter only if the base path happened to hold it.
C7_BustedUnlessQuery ==
  \A L \in Loaders :
    Started(L) =>
      /\ DedupedInOrder(L)
      /\ \A i \in 1..Len(ld[L].candidates) :
           LET c == ld[L].candidates[i]
           IN  IF Includes(Unsuffixed(c), "?")
               THEN ~HasSuffix(c)
               ELSE HasSuffix(c) /\ CacheBustCount(c) = 1

\* A base path with a query: three candidates, all requested in order, the
\* first left unsuffixed and without any cache-busting parameter, the other
\* two suffixed.
C7_Witness ==
  \E L \in Loaders :
    /\ Finished(L)
    /\ ld[L].requested = <<1, 2, 3>>
    /\ Includes(BASE_URL, "?")
    /\ CacheBustCount(ld[L].candidates[1]) = 0
    /\ HasSuffix(ld[L].candidates[2])
    /\ HasSuffix(ld[L].candidates[3])

C9_BenchmarkNeverEmpty ==
  Started("sdrbench") =>
    IsArray(sdrbenchDatasets) /\ Len(sdrbenchDatasets.items) > 0

\* A step of the benchmark load alone.
BenchmarkStep ==
  /\ ld'["sdrbench"] # ld["sdrbench"]
  /\ ld'["community"] = ld["community"]

NonTimer(rec) == [rec EXCEPT !.timers = {}]

\* The step in which loadAll starts both loads.
LoadAllStarts == loadAllPc # "awaiting" /\ loadAllPc' = "awaiting"

\* C11: loadAll starts the two loads in one step, each with its first request
\* outstanding; while it awaits them loading is true and a load that has not
\* finished has a request outstanding, whatever the other load did; loading
\* turns false on the Datasets page only when both loads have finished; every
\* later step moves at most one of the two loads; and a step that does not
\* move a load leaves that load's collection and message unchanged.
C11_LoadAllRunsBothIndependently ==
  /\ []((loadAllPc = "awaiting") =>
          /\ loading
          /\ \A L \in {"community", "sdrbench"} :
               Finished(L) \/ ld[L].req \in {"pending", "body"})
  /\ [][ /\ LoadAllStarts =>
            \A L \in {"community", "sdrbench"} :
              ld'[L].req = "pending" /\ ld'[L].requested = <<1>>
         /\ (view = "datasets" /\ loading /\ ~loading') =>
              Finished("community") /\ Finished("sdrbench")
         /\ ~LoadAllStarts =>
              \/ NonTimer(ld'["community"]) = NonTimer(ld["community"])
              \/ NonTimer(ld'["sdrbench"]) = NonTimer(ld["sdrbench"])
         /\ (~LoadAllStarts /\ ld'["sdrbench"] = ld["sdrbench"]) =>
              sdrbenchDatasets' = sdrbenchDatasets /\ sdrError' = sdrError
         /\ ( /\ view = "datasets" /\ ~LoadAllStarts
              /\ ld'["community"] = ld["community"] ) =>
              communityDatasets' = communityDatasets /\ error' = error
       ]_vars

\* The community load has failed on all its candidates and set its message
\* while the benchmark load still waits for its first response.
C11_Witness ==
  /\ loadAllPc = "awaiting" /\ loading
  /\ Finished("community") /\ AllFailed("community") /\ error # ""
  /\ ld["sdrbench"].req = "pending" /\ ld["sdrbench"].requested = <<1>>

\* The collection the mounted page filters and the outcome of its filter.
Source == IF view = "modules" THEN modules ELSE compositions
View   == IF view = "modules" THEN filteredModules ELSE filteredCompositions

\* A text in lower case, and the question whether a text holds a query when
\* letter case is ignored.
Lowered(s) ==
  [i \in 1..Len(s) |->
     CASE s[i] = "A" -> "a" [] s[i] = "B" -> "b" [] OTHER -> s[i]]
HoldsIgnoringCase(text, q) ==
  LET t == Lowered(text)
      w == Lowered(q)
  IN  \E k \in 0..(Len(t) - Len(w)) : SubSeq(t, k + 1, k + Len(w)) = w

\* The values of an optional list, none when the field is missing.
Entries(field) ==
  IF field = <<>> THEN {} ELSE {field[1][i] : i \in 1..Len(field[1])}

\* The texts of the fields a view searches.
SearchableTexts(v, r) ==
  {r.name, r.description} \cup Entries(r.tags) \cup
  IF v = "modules" THEN {}
  ELSE Entries(r.usedIn)
       \cup {cap.name : cap \in Entries(r.capabilities)}
       \cup {cap.description : cap \in Entries(r.capabilities)}

CategoryPasses(r) ==
  selectedCategory = Sentinel(view) \/ r.category = selectedCategory
QueryPasses(r) ==
  \/ searchQuery = <<>>
  \/ \E text \in SearchableTexts(view, r) : HoldsIgnoringCase(text, searchQuery)

Among(kept, p) == \E i \in 1..Len(kept) : kept[i] = p

\* Every record of the collection carries the fields its data model
\* requires; tags is the one the catalog can lack.
WellFormed == \A p \in 1..Len(Source.items) : RecordAt(Source, p).tags # <<>>

FeatureHolds(r) ==
  \E i \in 1..Len(r.features) : HoldsIgnoringCase(r.features[i], searchQuery)
NameDescriptionOrTagHolds(r) ==
  \E text \in {r.name, r.description} \cup Entries(r.tags) :
    HoldsIgnoringCase(text, searchQuery)

\* C13 as stated: on the Modules page a module one of whose feature strings
\* contains the lower-cased query is retained (its category passing), also
\* when its name, description and tags do not match.
C13_FeatureMatchRetained ==
  (view = "modules" /\ WellFormed /\ searchQuery # <<>>) =>
    LET kept == filteredModules.kept
    IN  \A p \in 1..Len(modules.items) :
          ( /\ FeatureHolds(RecordAt(modules, p))
            /\ CategoryPasses(RecordAt(modules, p)) ) => Among(kept, p)

\* C13, amended: the text filter of the Modules page looks at name,
\* description and tags only.  A module is retained for a non-empty query
\* exactly when one of these holds the query and its category passes; a
\* module that holds the query in a feature string only is not retained.
C13_FeaturesNotSearched ==
  (view = "modules" /\ WellFormed /\ searchQuery # <<>>) =>
    LET kept == filteredModules.kept
    IN  \A p \in 1..Len(modules.items) :
          LET r == RecordAt(modules, p)
          IN  /\ (FeatureHolds(r) /\ ~NameDescriptionOrTagHolds(r))
                   => ~Among(kept, p)
              /\ (NameDescriptionOrTagHolds(r) /\ CategoryPasses(r))
                   => Among(kept, p)

\* The Modules page with records 1 and 5 and the query "AB": record 5, whose
\* feature "ab" holds the query, is left out; record 1 is shown.
C13_Witness ==
  /\ view = "modules"
  /\ modules.items = <<1, 5>>
  /\ searchQuery = <<"A", "B">>
  /\ selectedCategory = Sentinel("modules")
  /\ filteredModules = Returned(<<1>>)

\* C14: the positions the filter keeps are positions of the source
\* collection, each at most once and in ascending order, so the filtered view
\* is a subsequence of the source made of the source's own items; and no
\* step of the filter specification, each of which recomputes the view,
\* changes a collection.
C14_ViewIsSubsequenceOfSource ==
  /\ [](LET kept == View.kept
         IN  /\ \A i \in 1..Len(kept) : kept[i] \in 1..Len(Source.items)
             /\ \A i, j \in 1..Len(kept) : i < j => kept[i] < kept[j])
  /\ [][modules' = modules /\ compositions' = compositions]_vars

\* The Modules page with records 1, 5, 3 and the query "AB": the first and
\* the third item are shown, the second is left out.
C14_Witness ==
  /\ view = "modules"
  /\ modules.items = <<1, 5, 3>>
  /\ searchQuery = <<"A", "B">>
  /\ filteredModules = Returned(<<1, 3>>)

\* C15 as stated: with a non-empty query the filter raises no error, also
\* when the collection holds a record whose tags, usedIn or capabilities are
\* missing.
C15_MissingCollectionsNeverThrow ==
  searchQuery # <<>> => ~View.threw

\* The categories of all the records of the source collection.
AllCategories == {RecordAt(Source, p).category : p \in 1..Len(Source.items)}

\* C16: in every state, whatever query is typed and whatever category is
\* selected, the facet list starts with the page's sentinel (also when the
\* collection is empty) and the rest is the distinct categories of the whole
\* collection, each once, in strictly ascending code-unit order.
C16_FacetsAreSentinelThenSortedCategories ==
  LET facets == categories
  IN  /\ facets[1] = Sentinel(view)
      /\ {facets[i] : i \in 2..Len(facets)} = AllCategories
      /\ Len(facets) = 1 + Cardinality(AllCategories)
      /\ \A i, j \in 2..Len(facets) :
           i < j => Precedes(facets[i], facets[j])

\* The Modules page with records of the categories "a", "B", "Ab" in this
\* order, a query typed and the category "B" selected: the facets are
\* "all", "Ab", "B", "a".
C16_Witness ==
  /\ view = "modules"
  /\ modules.items = <<2, 1, 4>>
  /\ searchQuery = <<"l">>
  /\ selectedCategory = <<"B">>
  /\ categories = << <<"a", "l", "l">>, <<"A", "b">>, <<"B">>, <<"a">> >>

\* The buckets of modulesByCategory laid end to end, in emission order.
RECURSIVE Flatten(_)
Flatten(buckets) ==
  IF buckets = <<>> THEN <<>>
  ELSE Head(buckets).members \o Flatten(Tail(buckets))

CategoryAt(p) == RecordAt(modules, p).category

\* Two filtered modules of one category have a module of another category
\* between them.
Interleaved(kept) ==
  \E i, j, k \in 1..Len(kept) :
    /\ i < j /\ j < k
    /\ CategoryAt(kept[i]) = CategoryAt(kept[k])
    /\ CategoryAt(kept[i]) # CategoryAt(kept[j])

\* C17 as stated: the buckets laid end to end are the filtered sequence.
C17_ConcatenationIsFilteredSequence ==
  view = "modules" => Flatten(modulesByCategory) = filteredModules.kept

\* C17, amended: the buckets laid end to end hold every filtered module
\* exactly once (none dropped, none duplicated), and they are the filtered
\* sequence itself exactly when no two filtered modules of one category have
\* a module of another category between them.
C17_ConcatenationIsPermutation ==
  view = "modules" =>
    LET flat == Flatten(modulesByCategory)
        kept == filteredModules.kept
    IN  /\ Len(flat) = Len(kept)
        /\ {flat[i] : i \in 1..Len(flat)} = {kept[i] : i \in 1..Len(kept)}
        /\ Cardinality({flat[i] : i \in 1..Len(flat)}) = Len(flat)
        /\ (flat = kept) <=> ~Interleaved(kept)

\* Records of the categories "B", "a", "B", all matching the query "l": the
\* buckets laid end to end are
\* the first, the third and then the second module.
C17_Witness ==
  /\ view = "modules"
  /\ modules.items = <<1, 2, 3>>
  /\ searchQuery = <<"l">>
  /\ filteredModules = Returned(<<1, 2, 3>>)
  /\ Flatten(modulesByCategory) = <<1, 3, 2>>

\* The position in the filtered sequence of a filtered module.
RankIn(kept, p) == CHOOSE i \in 1..Len(kept) : kept[i] = p

\* C18: the buckets partition the filtered modules: no bucket is empty, no
\* two buckets have the same key, every member of a bucket has the bucket's
\* key as its category, a bucket holds exactly the filtered modules of its
\* category, in their order in the filtered sequence, so its size is their
\* number; and the buckets come in the order in which their categories first
\* occur in the filtered sequence.
C18_BucketsPartitionFilteredModules ==
  view = "modules" =>
    LET buckets == modulesByCategory
        kept    == filteredModules.kept
        OfCategory(c) == SelectSeq(kept, LAMBDA p : CategoryAt(p) = c)
    IN  /\ \A b \in 1..Len(buckets) :
             /\ buckets[b].members # <<>>
             /\ buckets[b].members = OfCategory(buckets[b].category)
             /\ \A c \in 1..Len(buckets) :
                  b < c =>
                    /\ buckets[b].category # buckets[c].category
                    /\ RankIn(kept, buckets[b].members[1])
                         < RankIn(kept, buckets[c].members[1])
        /\ \A i \in 1..Len(kept) :
             \E b \in 1..Len(buckets) : buckets[b].category = CategoryAt(kept[i])

\* Records of the categories "a", "B", "a", all matching the query "l": the
\* bucket "a" with the first and third module comes before the bucket "B"
\* with the second.
C18_Witness ==
  /\ view = "modules"
  /\ modules.items = <<2, 1, 5>>
  /\ searchQuery = <<"l">>
  /\ modulesByCategory =
       << [category |-> <<"a">>, members |-> <<1, 3>>],
          [category |-> <<"B">>, members |-> <<2>>] >>

\* The steps of the deep link, told by what they do to the timers.
LoadEnds == ld["modules"].pc # "done" /\ ld'["modules"].pc = "done"
DueLookups == {t \in domTimers : t.kind = "lookup" /\ t.left = 0}
DueRemovals == {t \in domTimers : t.kind = "unhighlight" /\ t.left = 0}
LookupHappens == \E t \in DueLookups : t \notin domTimers'
Target == routeHash[2]
RemovalTimer(card) == [kind |-> "unhighlight", left |-> HighlightMs, target |-> card]

\* C19: on the Modules page entered with an anchor,
\* - the step that ends a load arms a lookup 300 ms ahead, a lookup is armed
\*   in no other step, and the card's highlight and the scroll position are
\*   touched by a lookup only when its 300 ms have run out;
\* - a lookup that finds the card of the anchor scrolls to it, highlights it
\*   and arms the removal of the highlight 2000 ms ahead; when that removal
\*   comes due the card is not highlighted any more;
\* - a lookup that finds no card changes nothing but its own timer;
\* - a highlighted card always has a removal armed, at most 2000 ms ahead.
C19_LookupAfter300HighlightFor2000 ==
  /\ [](\A card \in highlighted :
          /\ card \in cards
          /\ \E t \in domTimers :
               t.kind = "unhighlight" /\ t.target = card /\ t.left <= HighlightMs)
  /\ [][ /\ LoadEnds =>
            [kind |-> "lookup", left |-> ScrollDelayMs, target |-> 0] \in domTimers'
         /\ (\E t \in domTimers' \ domTimers :
               t.kind = "lookup" /\ t.left = ScrollDelayMs) => LoadEnds
         /\ \A t \in domTimers' : t.kind = "lookup" => t.left <= ScrollDelayMs
         /\ (scrolledTo' # scrolledTo \/ highlighted' \ highlighted # {}) =>
              LookupHappens
         /\ (LookupHappens /\ Target \in cards) =>
              /\ scrolledTo' = Target
              /\ highlighted' = highlighted \cup {Target}
              /\ RemovalTimer(Target) \in domTimers'
         /\ (LookupHappens /\ Target \notin cards) =>
              /\ domTimers' \subseteq domTimers
              /\ UNCHANGED << scrolledTo, highlighted, cards, modules, loading,
                              error, ld, filterVars, routeHash >>
         /\ \A t \in DueRemovals :
              t \notin domTimers' => t.target \notin highlighted'
       ]_vars

\* The card of the anchor was found, scrolled to and highlighted, and its
\* highlight has been removed again: nothing is armed any more.
C19_Witness ==
  /\ view = "modules"
  /\ routeHash = <<"#", 1>>
  /\ scrolledTo = 1
  /\ 1 \in cards
  /\ highlighted = {}
  /\ domTimers = {}
  /\ ~loading

\* What a reader of the URL sees.  The parts of a token sequence between
\* separators:
RECURSIVE SplitOn(_, _)
SplitOn(seq, sep) ==
  IF \A i \in 1..Len(seq) : seq[i] # sep THEN <<seq>>
  ELSE LET k == CHOOSE i \in 1..Len(seq) :
                  seq[i] = sep /\ \A j \in 1..(i - 1) : seq[j] # sep
       IN  <<SubSeq(seq, 1, k - 1)>> \o SplitOn(SubSeq(seq, k + 1, Len(seq)), sep)

\* Percent-decoding of a query string, per token.
DecodeToken(tok) ==
  CASE tok = "+"   -> " "
    [] tok = "%20" -> " "
    [] tok = "%0A" -> "\n"
    [] tok = "%23" -> "#"
    [] tok = "%26" -> "&"
    [] tok = "%28" -> "("
    [] tok = "%29" -> ")"
    [] tok = "%2B" -> "+"
    [] tok = "%3D" -> "="
    [] tok = "%5B" -> "["
    [] tok = "%5D" -> "]"
    [] OTHER       -> tok
Decoded(text) == [i \in 1..Len(text) |-> DecodeToken(text[i])]

\* The address before the first '?', and the name=value pairs after it.
AddressOf(url) == SplitOn(url, "?")[1]
PairsOf(url) ==
  LET q == CHOOSE i \in 1..Len(url) : url[i] = "?" /\ \A j \in 1..(i - 1) : url[j] # "?"
  IN  SplitOn(SubSeq(url, q + 1, Len(url)), "&")
ParamNames(url) ==
  [i \in 1..Len(PairsOf(url)) |->
     IF PairsOf(url)[i] = <<>> THEN "" ELSE PairsOf(url)[i][1]]
ParamOf(url, name) ==
  LET pairs == PairsOf(url)
      i == CHOOSE i \in 1..Len(pairs) : pairs[i] # <<>> /\ pairs[i][1] = name
  IN  Decoded(SubSeq(pairs[i], 3, Len(pairs[i])))

IsPrefixOf(a, b) == Len(a) <= Len(b) /\ SubSeq(b, 1, Len(a)) = a

\* The five sections of the issue body: a header line, the line with the
\* field's value, an empty line.
SectionsOf(form) ==
  <<"#", "#", "#", " ", "Dataset", " ", "name", "\n">> \o form.name
    \o <<"\n", "\n", "#", "#", "#", " ", "Description", "\n">> \o form.description
    \o <<"\n", "\n", "#", "#", "#", " ", "Data", " ", "URL", "(", "s", ")", "\n">>
    \o form.links
    \o <<"\n", "\n", "#", "#", "#", " ", "Size", "\n">> \o form.size
    \o <<"\n", "\n", "#", "#", "#", " ", "Tags", "\n">> \o form.tags
    \o <<"\n">>

\* C20: for every form and every resolved slug, the URL buildIssueUrl
\* returns has the address https://github.com/<slug>/issues/new when the
\* slug is non-empty and https://github.com/new when it is empty; its query
\* has the parameters title, body and labels; title decodes to
\* '[Dataset] Contributing ' followed by the name, labels decodes to
\* 'dataset', and body decodes to a text that starts with the sections name,
\* description, data URLs, size, tags in this order, each a header line
\* followed by the field's value (the empty string when blank).
C20_IssueUrlCarriesTheForm ==
  LET url == BuildIssueUrl(repoSlug, uploadForm)
  IN  /\ AddressOf(url) =
           IF repoSlug # <<>>
           THEN <<"https://github.com/">> \o repoSlug \o <<"/issues/new">>
           ELSE <<"https://github.com/new">>
      /\ ParamNames(url) = <<"title", "body", "labels">>
      /\ ParamOf(url, "title") =
           <<"[", "Dataset", "]", " ", "Contributing", " ">> \o uploadForm.name
      /\ ParamOf(url, "labels") = <<"dataset">>
      /\ IsPrefixOf(SectionsOf(uploadForm), ParamOf(url, "body"))

\* An issue opened for the slug org/repo with the name ' &+=' and a
\* description of two lines: the URL opened carries them intact.
C20_Witness ==
  /\ opened # <<>>
  /\ repoSlug = <<"org", "/", "repo">>
  /\ AddressOf(opened[1]) = <<"https://github.com/", "org", "/", "repo", "/issues/new">>
  /\ ParamOf(opened[1], "title") =
       <<"[", "Dataset", "]", " ", "Contributing", " ", " ", "&", "+", "=">>
  /\ IsPrefixOf(<<"#", "#", "#", " ", "Dataset", " ", "name", "\n", " ", "&", "+", "=",
                  "\n", "\n", "#", "#", "#", " ", "Description", "\n", "x", "\n", "#">>,
                ParamOf(opened[1], "body"))

\* window.open is called: the URL last opened changes.
WindowOpens == opened' # opened

\* C21: a step in which openIssue opens a URL opens the URL of the form as it
\* was before the step (its title carries the name typed, its body the five
\* sections typed), leaves every one of the five fields the empty string, and
\* changes no collection, no loading flag and no error message.
C21_OpenIssueOpensThenClears ==
  [][ WindowOpens =>
        /\ Len(opened') = 1
        /\ ParamOf(opened'[1], "title") =
             <<"[", "Dataset", "]", " ", "Contributing", " ">> \o uploadForm.name
        /\ IsPrefixOf(SectionsOf(uploadForm), ParamOf(opened'[1], "body"))
        /\ \A f \in {"name", "description", "tags", "links", "size"} :
             uploadForm'[f] = <<>>
        /\ DOMAIN uploadForm' = {"name", "description", "tags", "links", "size"}
        /\ UNCHANGED << modules, communityDatasets, sdrbenchDatasets,
                        compositions, loading, error, sdrError >> ]_vars

\* An issue was opened for a form with the name 'Foo' and the size '1', and
\* the form is blank again.
C21_Witness ==
  /\ opened # <<>>
  /\ ParamOf(opened[1], "title") =
       <<"[", "Dataset", "]", " ", "Contributing", " ", "Foo">>
  /\ IsPrefixOf(SectionsOf([EmptyForm EXCEPT !.name = <<"Foo">>, !.size = <<"1">>]),
                ParamOf(opened[1], "body"))
  /\ uploadForm = EmptyForm

\* The payload a finished loader's successful attempt resolved with.
Payload(L) == ld[L].resolved[1]

\* C22: in every reachable state each of the four collections is an ordered
\* sequence, whatever body a response carried, and a collection adopted from
\* a payload that is a sequence holds the payload's items in the payload's
\* order.
C22_CollectionsAreSequences ==
  /\ IsArray(modules)
  /\ IsArray(communityDatasets)
  /\ IsArray(sdrbenchDatasets)
  /\ IsArray(compositions)
  /\ \A L \in {"modules", "community"} :
       (Finished(L) /\ Succeeded(L) /\ IsArray(Payload(L)))
         => CollectionOf(L).items = Payload(L).items

\* The two steps of a page's filter, each a pass of Array.prototype.filter
\* over the positions it is given: the page's own text callback, skipped for
\* an empty query, and the category test, skipped for the page's sentinel.
TextVerdict(p) ==
  IF view = "modules"
  THEN MatchModule(RecordAt(Source, p), ToLowerCase(searchQuery))
  ELSE MatchComposition(RecordAt(Source, p), ToLowerCase(searchQuery))
TextStep(out) ==
  LET verdict == [p \in 1..Len(Source.items) |-> TextVerdict(p)]
  IN  IF out.threw \/ searchQuery = <<>> THEN out
      ELSE IF Throws(out.kept, verdict) THEN Threw
      ELSE Returned(FilterPositions(out.kept, verdict))
CategoryStep(out) ==
  LET verdict == [p \in 1..Len(Source.items) |->
                    InCategory(RecordAt(Source, p), selectedCategory)]
  IN  IF out.threw \/ selectedCategory = Sentinel(view) THEN out
      ELSE Returned(FilterPositions(out.kept, verdict))
TextThenCategory == CategoryStep(TextStep(Returned(Positions(Source))))
CategoryThenText == TextStep(CategoryStep(Returned(Positions(Source))))

\* C23: for every collection, query and selected category the text filter
\* followed by the category filter (the order of the Modules page) gives the
\* same outcome as the category filter followed by the text filter (the
\* order of the Compositions page), and the page shows that outcome.
C23_FilterOrderIsImmaterial ==
  /\ TextThenCategory = CategoryThenText
  /\ View = TextThenCategory

\* The module the anchor names is in the loaded collection; it passes the
\* filter the page holds.
TargetLoaded ==
  \E p \in 1..Len(modules.items) : RecordAt(modules, p).id = Target
TargetShown ==
  \E p \in 1..Len(modules.items) :
    /\ RecordAt(modules, p).id = Target
    /\ CategoryPasses(RecordAt(modules, p))
    /\ QueryPasses(RecordAt(modules, p))

\* C24: whenever the lookup runs and the module the anchor names is in the
\* loaded collection, it is scrolled to and highlighted, whatever the query
\* and the selected category are.
C24_TargetFoundWhateverTheFilter ==
  [][ (LookupHappens /\ TargetLoaded) =>
        (scrolledTo' = Target /\ Target \in highlighted') ]_vars

\* C24, as the page behaves: the lookup is armed by the end of the load
\* whatever the query and the selected category are, but it searches the
\* rendered cards: a loaded module that passes the filter at the moment of
\* the lookup is scrolled to and highlighted, a loaded module the filter
\* hides is not, and then the lookup changes nothing.
C24_TargetFoundWhenShown ==
  [][ /\ LoadEnds =>
           [kind |-> "lookup", left |-> ScrollDelayMs, target |-> 0] \in domTimers'
      /\ (LookupHappens /\ TargetLoaded /\ TargetShown) =>
           (scrolledTo' = Target /\ Target \in highlighted')
      /\ (LookupHappens /\ ~TargetShown) =>
           UNCHANGED << scrolledTo, highlighted >> ]_vars

\* The page was entered with the anchor of module 1 and has loaded module 1
\* while the query "ba" hides it: the lookup has run and found nothing.
C24_Witness ==
  /\ view = "modules"
  /\ routeHash = <<"#", 1>>
  /\ Finished("modules")
  /\ modules.items = <<1>>
  /\ searchQuery = <<"b", "a">>
  /\ cards = {}
  /\ domTimers = {}
  /\ scrolledTo = 0

\* An invocation starts; its attempt resolves with a parsed body.
Begins(I) == ld[I].pc = "idle" /\ ld'[I].pc = "awaiting"
SettlesOk(I) == ld[I].resolved = <<>> /\ ld'[I].resolved # <<>>

Running(L) == ld[L].pc = "awaiting"
Starts(L) ==
  \/ ~Running(L) /\ Running(L)'
  \/ Len(ld'[L].requested) < Len(ld[L].requested)

\* C26: on the Modules and the Datasets page the Reload control is disabled
\* exactly when the page's loading flag is true; the flag is false
\* only when no invocation of the page's loaders is running and no loadAll
\* awaits them; so every step that starts loadModules or loadAll finds no
\* invocation of it running: at most one is outstanding at any time.
C26_ReloadDisabledWhileLoading ==
  /\ [](view \in {"modules", "datasets"} =>
          /\ ReloadDisabled <=> loading
          /\ ~loading =>
               /\ \A L \in Loaders : ViewOf(L) = view => ~Running(L)
               /\ view = "datasets" => loadAllPc # "awaiting")
  /\ [][ \A L \in Loaders :
           Starts(L) =>
             /\ ~Running(L)
             /\ ~loading
             /\ loading'
             /\ L # "modules" =>
                  /\ loadAllPc # "awaiting"
                  /\ Starts("community") /\ Starts("sdrbench") ]_vars

\* The Modules page reloading: module 1 was loaded, Reload was pressed and
\* the first candidate of the new invocation is outstanding.
C26_Witness ==
  /\ view = "modules"
  /\ loading
  /\ Outstanding("modules")
  /\ ld["modules"].before.items = <<1>>

\* An attempt resolves with a body that is not a sequence.
SettlesWithNonSequence(L) == SettlesOk(L) /\ ~ld'[L].resolved[1].isArray

\* C27: in a modules load and in a community-datasets load, the step in
\* which a candidate's body parses to a value that is not a sequence ends
\* the load as a success: the collection becomes the empty sequence,
\* whatever it held, no further candidate is requested, and the error
\* message stays empty; the load stays in that state once it has ended.
C27_NonSequenceBodyIsSuccess ==
  /\ [](\A L \in {"modules", "community"} :
          (Finished(L) /\ Succeeded(L) /\ ~IsArray(Payload(L))) =>
            /\ CollectionOf(L).isArray /\ CollectionOf(L).items = <<>>
            /\ ld[L].attempts[Len(ld[L].attempts)] = "ok"
            /\ Len(ld[L].requested) = Len(ld[L].attempts)
            /\ error = "")
  /\ [][ /\ SettlesWithNonSequence("modules") =>
             /\ modules' = [isArray |-> TRUE, items |-> <<>>]
             /\ Finished("modules")'
             /\ ld'["modules"].requested = ld["modules"].requested
             /\ error' = ""
         /\ SettlesWithNonSequence("community") =>
             /\ communityDatasets' = [isArray |-> TRUE, items |-> <<>>]
             /\ Finished("community")'
             /\ ld'["community"].requested = ld["community"].requested
             /\ error' = "" ]_vars

\* The Modules page had loaded module 1; on reload the first candidate
\* answered with a body that is not a list: the collection is empty, the
\* other candidates were never requested and no error is shown.
C27_Witness ==
  /\ view = "modules"
  /\ Finished("modules")
  /\ ld["modules"].before.items = <<1>>
  /\ ld["modules"].resolved # <<>>
  /\ ~ld["modules"].resolved[1].isArray
  /\ ld["modules"].requested = <<1>>
  /\ Len(ld["modules"].candidates) > 1
  /\ modules.items = <<>>
  /\ error = ""

\* The benchmark collection held an override when the running invocation of
\* loadSdrbenchDatasets started.
OverrideBefore ==
  /\ Started("sdrbench")
  /\ Len(ld["sdrbench"].before.items) > 0
  /\ ld["sdrbench"].before # EmbeddedOrEmpty

Unusable(data) == ~data.isArray \/ Len(data.items) = 0

C30_EveryLoadFinishes ==
  /\ \A L \in Loaders : Running(L) ~> Finished(L)
  /\ (loadAllPc = "awaiting") ~> (loadAllPc = "done")
  /\ loading ~> ~loading

\* The Datasets page after a loadAll in which the community load ran out
\* of candidates, the last one by timeout, and the benchmark load succeeded:
\* the flag is false again.
C30_Witness ==
  /\ view = "datasets"
  /\ loadAllPc = "done"
  /\ ~loading
  /\ AllFailed("community")
  /\ ld["community"].lastFailure = "timeout"
  /\ Succeeded("sdrbench")

====
